---- MODULE Spec2Model ----
(***************************************************************************)
(* A model of num_string.py: rendering numbers in plain English.           *)
(*                                                                         *)
(* Python strings are TLA+ strings (built with \o, read with Len/SubSeq).  *)
(* Python integers are arbitrary-precision, so an integer is a record      *)
(* [neg, mag] whose magnitude is its sequence of decimal digits, least     *)
(* significant first, without a most-significant zero (zero is << >>).     *)
(* A call's outcome is a record [err, val]: err = "" when it returns val,  *)
(* otherwise the name of the exception that is raised.                     *)
(***************************************************************************)
EXTENDS Integers, Sequences, FiniteSets, TLC

VARIABLES
    pc,         \* "call" before the operation runs, "gen" while the generator
                \* is being iterated, "done" afterwards
    op,         \* the operation invoked
    arg,        \* its argument: a Python value (None when main gets no number)
    use_and,    \* integer_string's keyword argument
    argv_max,   \* main: whether --max was given
    random,     \* main: what random_number_string() returns if it is called
    gen_base,   \* last_to_first_digit's keyword argument base
    result,     \* the outcome of the call
    stdout,     \* what main has printed
    number,     \* last_to_first_digit's local: what is left of the number
    yielded     \* the values last_to_first_digit has yielded so far

vars == <<pc, op, arg, use_and, argv_max, random, gen_base, result, stdout,
          number, yielded>>

-----------------------------------------------------------------------------
(* Vocabulary tables *)

DIGIT_NAMES ==
    [d \in 0..9 |-> <<"zero", "one", "two", "three", "four", "five", "six",
                      "seven", "eight", "nine">>[d + 1]]

NUMBER_NAMES ==
    (10 :> "ten") @@ (11 :> "eleven") @@ (12 :> "twelve") @@
    (13 :> "thirteen") @@ (14 :> "fourteen") @@ (15 :> "fifteen") @@
    (16 :> "sixteen") @@ (17 :> "seventeen") @@ (18 :> "eighteen") @@
    (19 :> "nineteen") @@ (20 :> "twenty") @@ (30 :> "thirty") @@
    (40 :> "forty") @@ (50 :> "fifty") @@ (60 :> "sixty") @@
    (70 :> "seventy") @@ (80 :> "eighty") @@ (90 :> "ninety")

UNIQUE_NUMBER_NAMES == NUMBER_NAMES @@ DIGIT_NAMES

ILLIONS ==
    <<"m", "b", "tr", "quadr", "quint", "sext", "sept", "oct", "non", "dec",
      "undec", "duodec", "tredec", "quattuordec", "quindec", "sexdec",
      "septendec", "octodec", "novemdec", "vigint", "unvigint", "duovigint",
      "trevigint", "quattuorvigint", "quinvigint", "sexvigint",
      "septenvigint", "octovigint", "novemvigint", "trigint", "untrigint",
      "duotrigint">>

-----------------------------------------------------------------------------
(* Python values and the built-ins the program uses *)

Returns(s) == [err |-> "", val |-> s]
Raises(e) == [err |-> e, val |-> ""]

Int0 == [neg |-> FALSE, mag |-> << >>]

RECURSIVE Repeat(_, _)
Repeat(d, k) == IF k = 0 THEN << >> ELSE <<d>> \o Repeat(d, k - 1)

RECURSIVE NatMag(_)
\* the digits of a natural number small enough to be written as a literal
NatMag(i) == IF i = 0 THEN << >> ELSE <<i % 10>> \o NatMag(i \div 10)

PyInt(i) == IF i < 0 THEN [neg |-> TRUE, mag |-> NatMag(-i)]
                     ELSE [neg |-> FALSE, mag |-> NatMag(i)]

RECURSIVE Log10(_)
Log10(base) == IF base < 10 THEN 0 ELSE 1 + Log10(base \div 10)

RECURSIVE Low(_, _)
\* the value of the k least significant digits of a magnitude
Low(mag, k) ==
    IF k = 0 \/ mag = << >> THEN 0 ELSE Head(mag) + 10 * Low(Tail(mag), k - 1)

\* number % base and number // base of a non-negative integer, base = 10^k
Mod(mag, base) == Low(mag, Log10(base))
FloorDiv(mag, base) ==
    IF Len(mag) <= Log10(base) THEN << >>
    ELSE SubSeq(mag, Log10(base) + 1, Len(mag))

Abs(n) == [neg |-> FALSE, mag |-> n.mag]
Truthy(n) == n.mag # << >>

RECURSIVE Join(_, _)
\* sep.join(words)
Join(sep, words) ==
    IF words = << >> THEN ""
    ELSE IF Len(words) = 1 THEN words[1]
    ELSE words[1] \o sep \o Join(sep, Tail(words))

\* MAX = 10**((len(ILLIONS) + 2)*3) - 1
MAX == [neg |-> FALSE, mag |-> Repeat(9, (Len(ILLIONS) + 2) * 3)]

-----------------------------------------------------------------------------
(* last_to_first_digit *)

RECURSIVE last_to_first_digit(_, _)
\* everything the generator yields before it is exhausted
last_to_first_digit(mag, base) ==
    IF mag = << >> THEN << >>
    ELSE <<Mod(mag, base)>> \o last_to_first_digit(FloorDiv(mag, base), base)

-----------------------------------------------------------------------------
(* integer_string *)

\* ChunkWords with line 132 testing use_and only
ChunkWords_AlwaysAnd(chunk, and_flag) ==
    LET hundreds == chunk \div 100
        tens0 == chunk % 100
        inTable == tens0 \in DOMAIN UNIQUE_NUMBER_NAMES
        digit == tens0 % 10
        tens == IF inTable THEN tens0 ELSE tens0 - digit
        tens_name == IF inTable THEN UNIQUE_NUMBER_NAMES[tens0]
                     ELSE NUMBER_NAMES[tens] \o "-" \o DIGIT_NAMES[digit]
    IN  (IF hundreds # 0
            THEN <<DIGIT_NAMES[hundreds], "hundred">> \o
                 (IF and_flag THEN <<"and">> ELSE << >>)
            ELSE << >>) \o
        (IF tens # 0 THEN <<tens_name>> ELSE << >>)

\* ChunkWords with line 127 joining the tens and the digit as two words
ChunkWords_TwoWords(chunk, and_flag) ==
    LET hundreds == chunk \div 100
        tens0 == chunk % 100
        inTable == tens0 \in DOMAIN UNIQUE_NUMBER_NAMES
        digit == tens0 % 10
        tens == IF inTable THEN tens0 ELSE tens0 - digit
        tens_name == IF inTable THEN UNIQUE_NUMBER_NAMES[tens0]
                     ELSE NUMBER_NAMES[tens] \o " " \o DIGIT_NAMES[digit]
    IN  (IF hundreds # 0
            THEN <<DIGIT_NAMES[hundreds], "hundred">> \o
                 (IF and_flag /\ tens # 0 THEN <<"and">> ELSE << >>)
            ELSE << >>) \o
        (IF tens # 0 THEN <<tens_name>> ELSE << >>)

\* lines 116-135: the words of one non-zero chunk, before the scale word
ChunkWords(chunk, and_flag) ==
    LET hundreds == chunk \div 100
        tens0 == chunk % 100
        inTable == tens0 \in DOMAIN UNIQUE_NUMBER_NAMES
        digit == tens0 % 10
        tens == IF inTable THEN tens0 ELSE tens0 - digit
        tens_name == IF inTable THEN UNIQUE_NUMBER_NAMES[tens0]
                     ELSE NUMBER_NAMES[tens] \o "-" \o DIGIT_NAMES[digit]
    IN  (IF hundreds # 0
            THEN <<DIGIT_NAMES[hundreds], "hundred">> \o
                 (IF and_flag /\ tens # 0 THEN <<"and">> ELSE << >>)
            ELSE << >>) \o
        (IF tens # 0 THEN <<tens_name>> ELSE << >>)

\* ScaleWords with line 140 indexing ILLIONS by chunk_index - 1
ScaleWords_OffByOne(chunk_index) ==
    IF chunk_index = 1 THEN Returns(<<"thousand">>)
    ELSE IF chunk_index > 1
        THEN IF chunk_index - 1 < Len(ILLIONS)
                THEN Returns(<<ILLIONS[chunk_index - 1 + 1] \o "illion">>)
                ELSE Raises("IndexError")
    ELSE Returns(<< >>)

\* ScaleWords with line 140 wrapping the index around the table
ScaleWords_Wrap(chunk_index) ==
    IF chunk_index = 1 THEN Returns(<<"thousand">>)
    ELSE IF chunk_index > 1
        THEN Returns(<<ILLIONS[((chunk_index - 2) % Len(ILLIONS)) + 1]
                          \o "illion">>)
    ELSE Returns(<< >>)

\* lines 137-140: the scale word of a chunk position; IndexError past ILLIONS
ScaleWords(chunk_index) ==
    IF chunk_index = 1 THEN Returns(<<"thousand">>)
    ELSE IF chunk_index > 1
        THEN IF chunk_index - 2 < Len(ILLIONS)
                THEN Returns(<<ILLIONS[chunk_index - 2 + 1] \o "illion">>)
                ELSE Raises("IndexError")
    ELSE Returns(<< >>)

RECURSIVE ChunkLoop(_, _, _, _)
\* lines 110-142: the for loop from position chunk_index on; thousand_chunks
\* is the deque built so far
ChunkLoop(chunks, chunk_index, thousand_chunks, and_flag) ==
    IF chunk_index >= Len(chunks) THEN Returns(thousand_chunks)
    ELSE LET chunk == chunks[chunk_index + 1]
             scale == ScaleWords(chunk_index)
         IN  IF chunk = 0
                THEN ChunkLoop(chunks, chunk_index + 1, thousand_chunks,
                               and_flag)
             ELSE IF scale.err # "" THEN scale
             ELSE ChunkLoop(chunks, chunk_index + 1,
                     <<Join(" ", ChunkWords(chunk, and_flag) \o scale.val)>>
                         \o thousand_chunks,
                     and_flag)

\* integer_string with line 103 leaving the sign prefix empty
integer_string_NoSign(n, and_flag) ==
    IF ~Truthy(n) THEN Returns(DIGIT_NAMES[0])
    ELSE LET sign_prefix == ""
             chunks == last_to_first_digit(Abs(n).mag, 1000)
             loop == ChunkLoop(chunks, 0, << >>, and_flag)
         IN  IF loop.err # "" THEN loop
             ELSE Returns(sign_prefix \o Join(", ", loop.val))

integer_string(n, and_flag) ==
    IF ~Truthy(n) THEN Returns(DIGIT_NAMES[0])
    ELSE LET sign_prefix == IF n.neg THEN "minus " ELSE ""
             chunks == last_to_first_digit(Abs(n).mag, 1000)
             loop == ChunkLoop(chunks, 0, << >>, and_flag)
         IN  IF loop.err # "" THEN loop
             ELSE Returns(sign_prefix \o Join(", ", loop.val))

-----------------------------------------------------------------------------
(* str methods, re and int() as number_string uses them *)

Char(s, i) == SubSeq(s, i, i)

Digits == <<"0", "1", "2", "3", "4", "5", "6", "7", "8", "9">>

IsDigit(c) == \E d \in 1..10 : Digits[d] = c
DigitVal(c) == (CHOOSE d \in 1..10 : Digits[d] = c) - 1

AllDigits(s) == \A i \in 1..Len(s) : IsDigit(Char(s, i))

RECURSIVE Split(_, _)
\* s.split(sep) for a one-character separator
Split(s, sep) ==
    IF \A i \in 1..Len(s) : Char(s, i) # sep THEN <<s>>
    ELSE LET i == CHOOSE j \in 1..Len(s) :
                      /\ Char(s, j) = sep
                      /\ \A k \in 1..(j - 1) : Char(s, k) # sep
         IN  <<SubSeq(s, 1, i - 1)>> \o Split(SubSeq(s, i + 1, Len(s)), sep)

\* INT_REGEX.fullmatch(s), INT_PATTERN = r'0|([1-9]\d+(_\d+)*)'
INT_REGEX_fullmatch(s) ==
    \/ s = "0"
    \/ LET groups == Split(s, "_")
       IN  /\ \A g \in 1..Len(groups) :
                 Len(groups[g]) >= 1 /\ AllDigits(groups[g])
           /\ Len(groups[1]) >= 2
           /\ Char(groups[1], 1) # "0"

RECURSIVE StripZeros(_)
\* drop the most significant zeros of a least-significant-first magnitude
StripZeros(mag) ==
    IF mag = << >> THEN << >>
    ELSE IF mag[Len(mag)] = 0 THEN StripZeros(SubSeq(mag, 1, Len(mag) - 1))
    ELSE mag

\* int(s): an optional sign, then digits with single underscores between them
int(s) ==
    LET signed == Len(s) >= 1 /\ Char(s, 1) \in {"+", "-"}
        body == IF signed THEN SubSeq(s, 2, Len(s)) ELSE s
        groups == Split(body, "_")
        digits == Join("", groups)
        mag == StripZeros([i \in 1..Len(digits) |->
                              DigitVal(Char(digits, Len(digits) + 1 - i))])
    IN  IF \A g \in 1..Len(groups) :
               Len(groups[g]) >= 1 /\ AllDigits(groups[g])
            THEN Returns([neg |-> Char(s, 1) = "-" /\ mag # << >>,
                          mag |-> mag])
            ELSE Raises("ValueError")

RECURSIVE MagStr(_)
MagStr(mag) ==
    IF mag = << >> THEN ""
    ELSE MagStr(Tail(mag)) \o Digits[Head(mag) + 1]

\* str(n) of an integer
IntStr(n) ==
    IF n.mag = << >> THEN "0"
    ELSE (IF n.neg THEN "-" ELSE "") \o MagStr(n.mag)

\* A Python value: a str, an int, a float (known by the text str() gives it)
\* or None.
PyStr(s) == [type |-> "str", text |-> s, int |-> Int0]
PyIntV(n) == [type |-> "int", text |-> "", int |-> n]
PyFloat(repr) == [type |-> "float", text |-> repr, int |-> Int0]
None == [type |-> "None", text |-> "", int |-> Int0]

\* str(v)
Str(v) == IF v.type = "int" THEN IntStr(v.int)
          ELSE IF v.type = "None" THEN "None"
          ELSE v.text

-----------------------------------------------------------------------------
(* number_string *)

\* PointsPart with line 172 naming the fraction as one number
PointsPart_AsNumber(points) ==
    IF \A i \in 1..Len(points) : IsDigit(Char(points, i))
        THEN IF points = "" THEN Returns("")
             ELSE integer_string(int(points).val, TRUE)
        ELSE Raises("ValueError")

\* line 172: ' '.join(DIGIT_NAMES[int(digit)] for digit in points)
PointsPart(points) ==
    IF \A i \in 1..Len(points) : IsDigit(Char(points, i))
        THEN Returns(Join(" ", [i \in 1..Len(points) |->
                                   DIGIT_NAMES[DigitVal(Char(points, i))]]))
        ELSE Raises("ValueError")

\* lines 165-174
FloatHandling(v) ==
    LET parts == Split(Str(v), ".")
    IN  IF Len(parts) # 2 THEN Raises("ValueError")
        ELSE LET integer == int(parts[1])
                 integer_part == IF integer.err # "" THEN integer
                                 ELSE integer_string(integer.val, TRUE)
                 points_part == PointsPart(parts[2])
             IN  IF integer_part.err # "" THEN integer_part
                 ELSE IF points_part.err # "" THEN points_part
                 ELSE Returns(integer_part.val \o " point " \o points_part.val)

number_string(v) ==
    IF v.type = "str" /\ INT_REGEX_fullmatch(v.text)
        THEN integer_string(int(v.text).val, TRUE)
    ELSE IF v.type = "int" THEN integer_string(v.int, TRUE)
    ELSE FloatHandling(v)

-----------------------------------------------------------------------------
(* random_integer_string, random_number_string *)

\* lines 177-186; first, integer_count and tail are what random returns
random_integer_string(max_digits, first, integer_count, tail) ==
    Digits[first + 1] \o tail

\* lines 189-197; is_integer is the outcome of random.random() < 0.5
random_number_string(integer, is_integer, decimals) ==
    IF is_integer THEN integer ELSE integer \o "." \o decimals

-----------------------------------------------------------------------------
(* Bounds of the model and the inputs they give *)

MaxSmall == 1100        \* integers 0..MaxSmall are all rendered
MaxChunkIndex == 35     \* highest base-1000 position of a large integer
MaxGenIndex == 8        \* the same for the integers fed to the generator
MaxStrLen == 5          \* longest string given to number_string
MaxArgLen == 3          \* longest command-line argument given to main

Alphabet == {"-", "0", "1", "2", "_", "."}
LowChunks == {0, 21, 305}
HighChunks == {1, 999}
RandFirst == {1, 9}
RandTail == {"0", "7"}

RECURSIVE Strings(_)
\* the strings over Alphabet of exactly the given length
Strings(len) ==
    IF len = 0 THEN {""}
    ELSE {s \o c : s \in Strings(len - 1), c \in Alphabet}

StringsUpTo(len) == UNION {Strings(k) : k \in 0..len}

RECURSIVE RepeatStr(_, _)
RepeatStr(c, k) == IF k = 0 THEN "" ELSE c \o RepeatStr(c, k - 1)

\* low * 1000^i + high * 1000^j, for i < j
Sparse(low, i, high, j) ==
    Repeat(0, 3 * i) \o <<low % 10, (low \div 10) % 10, low \div 100>>
        \o Repeat(0, 3 * (j - i - 1)) \o NatMag(high)

SparseMags(maxIndex) ==
    {Sparse(low, p[1], high, p[2]) :
        low \in LowChunks, high \in HighChunks,
        p \in {q \in (0..maxIndex) \X (1..maxIndex) : q[1] < q[2]}}

Magnitudes ==
    {NatMag(i) : i \in 0..MaxSmall}
        \cup {NatMag(1234), NatMag(1000000), NatMag(2000000000)}
        \cup SparseMags(MaxChunkIndex)
        \cup {MAX.mag, Repeat(0, Len(MAX.mag)) \o <<1>>}

GenMagnitudes ==
    {NatMag(i) : i \in 0..MaxSmall}
        \cup SparseMags(MaxGenIndex)

\* the texts str() gives finite floats in positional notation
IsFloatRepr(s) ==
    LET parts == Split(s, ".")
        unsigned == IF Len(parts[1]) >= 1 /\ Char(parts[1], 1) = "-"
                        THEN SubSeq(parts[1], 2, Len(parts[1]))
                        ELSE parts[1]
    IN  /\ Len(parts) = 2
        /\ Len(unsigned) >= 1 /\ AllDigits(unsigned)
        /\ Len(unsigned) + Len(parts[2]) <= 16
        /\ Len(unsigned) > 1 => Char(unsigned, 1) # "0"
        /\ Len(parts[2]) >= 1 /\ AllDigits(parts[2])
        /\ Len(parts[2]) > 1 => Char(parts[2], Len(parts[2])) # "0"

ExtraStrings ==
    {"5", "-12", "+5", "1234", "12.34", "-0.5", "0.5", "10_000", "100_000_0",
     "1_000", "1000000", "-3.25", "2000000000",
     RepeatStr("9", Len(MAX.mag)), "1" \o RepeatStr("0", Len(MAX.mag)),
     "1" \o RepeatStr("0", Len(MAX.mag)) \o ".5"}

ArgStrings == StringsUpTo(MaxStrLen) \cup ExtraStrings

NumberArgs ==
    {PyStr(s) : s \in ArgStrings}
        \cup {PyFloat(s) : s \in {t \in ArgStrings : IsFloatRepr(t)}}
        \cup {PyFloat(s) : s \in {"inf", "nan", "1e+16", "1e-05"}}
        \cup {PyIntV(PyInt(i)) : i \in -21..21}
        \cup {PyIntV(MAX)}

\* what argparse takes as the positional argument: a leading '-' makes an
\* option of anything that does not look like a negative number
ArgvStrings ==
    {s \in StringsUpTo(MaxArgLen) :
        Len(s) >= 1 /\ Char(s, 1) = "-" =>
            LET parts == Split(SubSeq(s, 2, Len(s)), ".")
            IN  /\ Len(parts) <= 2
                /\ \A k \in 1..Len(parts) : AllDigits(parts[k])
                /\ Len(parts[Len(parts)]) >= 1}

\* line 189: the defaults of random_number_string
max_integer_digits == 100
max_decimal_points == 10

RandomIntegerStrings(max_digits) ==
    {random_integer_string(max_digits, first, integer_count,
                           RepeatStr(d, integer_count)) :
        first \in RandFirst, integer_count \in 0..(max_digits - 2),
        d \in RandTail}

RandomNumberStrings ==
    {random_number_string(integer, is_integer, decimals) :
        integer \in RandomIntegerStrings(max_integer_digits),
        is_integer \in BOOLEAN,
        decimals \in RandomIntegerStrings(max_decimal_points)}

-----------------------------------------------------------------------------
(* The calls *)

NoResult == Raises("pending")

\* The module is loaded and nothing has been called yet.
Init ==
    /\ pc = "idle" /\ op = "" /\ arg = None
    /\ use_and = TRUE /\ argv_max = FALSE /\ random = "" /\ gen_base = 10
    /\ result = NoResult /\ stdout = "" /\ number = << >> /\ yielded = << >>

\* integer_string(n, use_and=flag)
IntegerStringCall ==
    /\ pc = "idle"
    /\ \E m \in Magnitudes, neg \in BOOLEAN, flag \in BOOLEAN :
          LET n == [neg |-> neg /\ m # << >>, mag |-> m]
          IN  /\ arg' = PyIntV(n)
              /\ use_and' = flag
              /\ result' = integer_string(n, flag)
    /\ op' = "integer_string"
    /\ pc' = "done"
    /\ UNCHANGED <<argv_max, random, gen_base, stdout, number, yielded>>

\* number_string(v)
NumberStringCall ==
    /\ pc = "idle"
    /\ \E v \in NumberArgs :
          /\ arg' = v
          /\ result' = number_string(v)
    /\ op' = "number_string"
    /\ pc' = "done"
    /\ UNCHANGED <<use_and, argv_max, random, gen_base, stdout, number,
                   yielded>>

\* lines 200-213: main() with the command line [v] [--max]; rnd is what
\* random_number_string() returns when it is called
MainBody(v, flag, rnd) ==
    LET n == IF flag THEN PyIntV(MAX)
             ELSE IF v = None THEN PyStr(rnd)
             ELSE v
        phrase == number_string(n)
    IN  /\ arg' = v
        /\ argv_max' = flag
        /\ random' = rnd
        /\ result' = IF phrase.err # "" THEN phrase ELSE Returns("")
        /\ stdout' = IF phrase.err # "" THEN stdout
                     ELSE stdout \o Str(n) \o ": " \o phrase.val \o "\n"

Main ==
    /\ pc = "idle"
    /\ \/ \E v \in {PyStr(s) : s \in ArgvStrings}, flag \in BOOLEAN :
             MainBody(v, flag, "")
       \/ MainBody(None, TRUE, "")
       \/ \E rnd \in RandomNumberStrings : MainBody(None, FALSE, rnd)
    /\ op' = "main"
    /\ pc' = "done"
    /\ UNCHANGED <<use_and, gen_base, number, yielded>>

\* last_to_first_digit(n, base=b): calling the generator function binds its
\* arguments
GenStart ==
    /\ pc = "idle"
    /\ \E m \in GenMagnitudes, b \in {10, 1000} :
          /\ arg' = PyIntV([neg |-> FALSE, mag |-> m])
          /\ gen_base' = b
          /\ number' = m
    /\ op' = "last_to_first_digit"
    /\ pc' = "gen"
    /\ UNCHANGED <<use_and, argv_max, random, result, stdout, yielded>>

\* GenYield with lines 93 and 94 in the other order
GenYield_DivideFirst ==
    /\ pc = "gen" /\ number # << >>
    /\ yielded' = Append(yielded, Mod(FloorDiv(number, gen_base), gen_base))
    /\ number' = FloorDiv(number, gen_base)
    /\ UNCHANGED <<pc, op, arg, use_and, argv_max, random, gen_base, result,
                   stdout>>

\* lines 92-94: one round of the while loop
GenYield ==
    /\ pc = "gen" /\ number # << >>
    /\ yielded' = Append(yielded, Mod(number, gen_base))
    /\ number' = FloorDiv(number, gen_base)
    /\ UNCHANGED <<pc, op, arg, use_and, argv_max, random, gen_base, result,
                   stdout>>

\* line 92: the loop condition fails and the generator is exhausted
GenStop ==
    /\ pc = "gen" /\ number = << >>
    /\ pc' = "done"
    /\ result' = Returns("")
    /\ UNCHANGED <<op, arg, use_and, argv_max, random, gen_base, stdout,
                   number, yielded>>

Next ==
    \/ IntegerStringCall
    \/ NumberStringCall
    \/ Main
    \/ GenStart
    \/ GenYield
    \/ GenStop

Spec == Init /\ [][Next]_vars

\* The generator alone.  Whoever iterates it (the for loop of line 110) keeps
\* asking for the next value until it is exhausted.
GenNext ==
    \/ GenStart
    \/ GenYield
    \/ GenStop

GenSpec == Init /\ [][GenNext]_vars /\ WF_vars(GenNext)

-----------------------------------------------------------------------------
(* Vocabulary of the properties *)

Done(o) == pc = "done" /\ op = o

StartsWith(s, prefix) ==
    Len(s) >= Len(prefix) /\ SubSeq(s, 1, Len(prefix)) = prefix

EndsWith(s, suffix) ==
    Len(s) >= Len(suffix)
        /\ SubSeq(s, Len(s) - Len(suffix) + 1, Len(s)) = suffix

Count(s, c) == Cardinality({i \in 1..Len(s) : Char(s, i) = c})

\* a <= b for magnitudes
MagLeq(a, b) ==
    \/ Len(a) < Len(b)
    \/ /\ Len(a) = Len(b)
       /\ \A i \in 1..Len(a) :
             a[i] > b[i] => \E j \in (i + 1)..Len(a) : a[j] < b[j]

WithinMAX(n) == MagLeq(n.mag, MAX.mag)

DigitAt(mag, p) == IF p <= Len(mag) THEN mag[p] ELSE 0

\* the base-1000 group of a magnitude at position i, 0 = least significant
ChunkAt(mag, i) ==
    DigitAt(mag, 3 * i + 1) + 10 * DigitAt(mag, 3 * i + 2)
        + 100 * DigitAt(mag, 3 * i + 3)

NumChunks(mag) == (Len(mag) + 2) \div 3

\* the positions of the non-zero groups, most significant first
RECURSIVE NonZeroPositions(_, _)
NonZeroPositions(mag, i) ==
    IF i < 0 THEN << >>
    ELSE (IF ChunkAt(mag, i) # 0 THEN <<i>> ELSE << >>)
            \o NonZeroPositions(mag, i - 1)

\* the chunk phrases of a rendering, sign removed, in the order printed
ChunkPhrases(phrase) ==
    LET unsigned == IF StartsWith(phrase, "minus ")
                        THEN SubSeq(phrase, 7, Len(phrase)) ELSE phrase
        parts == Split(unsigned, ",")
    IN  [k \in 1..Len(parts) |->
            IF k = 1 THEN parts[k] ELSE SubSeq(parts[k], 2, Len(parts[k]))]

-----------------------------------------------------------------------------
(* C1: the rendering of 0..MAX *)

\* the scale word that follows the chunk at position i
RefScale(i) ==
    IF i = 0 THEN ""
    ELSE IF i = 1 THEN " thousand"
    ELSE " " \o ILLIONS[i - 1] \o "illion"

\* the reference rendering: every non-zero chunk is rendered as the number it
\* is, followed by the scale word of its position
RefRender(n, and_flag) ==
    IF n.mag = << >> THEN "zero"
    ELSE LET at == NonZeroPositions(n.mag, NumChunks(n.mag) - 1)
         IN  Join(", ",
                 [k \in 1..Len(at) |->
                     integer_string(PyInt(ChunkAt(n.mag, at[k])), and_flag).val
                         \o RefScale(at[k])])

\* C1: for every n in 0..MAX and either use_and, integer_string(n) is "zero"
\* for 0 and otherwise the phrases of the non-zero base-1000 chunks, most
\* significant first, each followed by its scale word (none, "thousand",
\* ILLIONS[i-2] + "illion"), joined by ", "; 1000, 1000000 and 2000000000
\* render as "one thousand", "one million" and "two billion".
T_C1 ==
    (Done("integer_string") /\ ~arg.int.neg /\ WithinMAX(arg.int)) =>
        /\ result = Returns(RefRender(arg.int, use_and))
        /\ arg.int = PyInt(1000) => result.val = "one thousand"
        /\ arg.int = PyInt(1000000) => result.val = "one million"
        /\ arg.int = PyInt(2000000000) => result.val = "two billion"

W_C1 ==
    /\ Done("integer_string") /\ ~arg.int.neg
    /\ NumChunks(arg.int.mag) = Len(ILLIONS) + 2
    /\ Len(NonZeroPositions(arg.int.mag, NumChunks(arg.int.mag) - 1)) = 2
    /\ ChunkAt(arg.int.mag, 1) # 0
    /\ result.err = ""

-----------------------------------------------------------------------------
(* C2: integer strings given to number_string *)

\* an optional sign, then "0" or a digit run without a leading zero whose
\* groups may be separated by single underscores
IsIntegerString(s) ==
    LET signed == Len(s) >= 1 /\ Char(s, 1) \in {"+", "-"}
        body == IF signed THEN SubSeq(s, 2, Len(s)) ELSE s
        groups == Split(body, "_")
    IN  \/ body = "0"
        \/ /\ \A g \in 1..Len(groups) :
                 Len(groups[g]) >= 1 /\ AllDigits(groups[g])
           /\ Char(body, 1) # "0"

\* C2: for every such string s, number_string(s) returns
\* integer_string(int(s)); this includes "5" and "-12".
CE_C2 ==
    (Done("number_string") /\ arg.type = "str" /\ IsIntegerString(arg.text)) =>
        result = integer_string(int(arg.text).val, TRUE)

-----------------------------------------------------------------------------
(* C3: negative integers *)

\* C3: for every positive n <= MAX and either use_and, integer_string(-n) is
\* "minus " followed by integer_string(n).
T_C3 ==
    (Done("integer_string") /\ arg.int.neg /\ WithinMAX(arg.int)) =>
        result = Returns("minus " \o integer_string(Abs(arg.int), use_and).val)

W_C3 ==
    /\ Done("integer_string") /\ arg.int = PyInt(-1234) /\ ~use_and
    /\ result.val = "minus one thousand, two hundred thirty-four"

-----------------------------------------------------------------------------
(* C4: decimals *)

\* <I>.<d1 ... dk>: digits, a point, at least one digit
IsDecimalText(s) ==
    LET parts == Split(s, ".")
    IN  /\ Len(parts) = 2
        /\ Len(parts[1]) >= 1 /\ AllDigits(parts[1])
        /\ Len(parts[2]) >= 1 /\ AllDigits(parts[2])

RECURSIVE DigitWords(_)
\* the names of the digits of a digit string, in order, one space apart
DigitWords(digits) ==
    IF Len(digits) = 1 THEN DIGIT_NAMES[DigitVal(digits)]
    ELSE DIGIT_NAMES[DigitVal(Char(digits, 1))] \o " "
            \o DigitWords(SubSeq(digits, 2, Len(digits)))

\* C4: for every decimal input whose text is <I>.<d1 ... dk>, number_string
\* gives integer_string(I), " point ", and the names of d1..dk in order, each
\* digit named on its own; "12.34" ends in "three four".
T_C4 ==
    (Done("number_string") /\ arg.type \in {"str", "float"}
        /\ IsDecimalText(arg.text)) =>
        LET parts == Split(arg.text, ".")
            whole == integer_string(int(parts[1]).val, TRUE)
        IN  /\ result = IF whole.err # "" THEN whole
                        ELSE Returns(whole.val \o " point "
                                        \o DigitWords(parts[2]))
            /\ arg.text = "12.34" => result.val = "twelve point three four"

W_C4 ==
    /\ Done("number_string") /\ arg = PyFloat("12.34")
    /\ result = Returns("twelve point three four")

-----------------------------------------------------------------------------
(* C5: the largest magnitude *)

\* C5: integer_string returns a phrase for every n with |n| <= MAX, MAX
\* included, and raises IndexError for every n with |n| > MAX.
T_C5 ==
    Done("integer_string") =>
        /\ WithinMAX(arg.int) => result.err = "" /\ result.val # ""
        /\ ~WithinMAX(arg.int) => result = Raises("IndexError")
        /\ WithinMAX(MAX)
        /\ Len(MAX.mag) = 3 * (Len(ILLIONS) + 2)

W_C5 ==
    /\ Done("integer_string")
    /\ arg.int.mag = Repeat(0, Len(MAX.mag)) \o <<1>>
    /\ result = Raises("IndexError")

-----------------------------------------------------------------------------
(* C6: the conjunction *)

AndPlaces(words) == {i \in 1..Len(words) : words[i] = "and"}

\* C6: in the phrase of every chunk c in 1..999 that integer_string renders,
\* the word "and" appears iff use_and, c // 100 # 0 and c % 100 # 0, and then
\* once, right after "hundred" and right before the tens/units phrase; 1234
\* is "one thousand, two hundred and thirty-four" with use_and and "one
\* thousand, two hundred thirty-four" without.
T_C6 ==
    (Done("integer_string") /\ result.err = "" /\ arg.int.mag # << >>) =>
        LET at == NonZeroPositions(arg.int.mag, NumChunks(arg.int.mag) - 1)
            phrases == ChunkPhrases(result.val)
        IN  /\ Len(phrases) = Len(at)
            /\ \A k \in 1..Len(at) :
                  LET c == ChunkAt(arg.int.mag, at[k])
                      words == Split(phrases[k], " ")
                  IN  /\ AndPlaces(words) # {} <=>
                            (use_and /\ c \div 100 # 0 /\ c % 100 # 0)
                      /\ \A i \in AndPlaces(words) :
                            /\ AndPlaces(words) = {i}
                            /\ i > 1 /\ words[i - 1] = "hundred"
                            /\ i < Len(words)
                            /\ words[i + 1] =
                                   integer_string(PyInt(c % 100), use_and).val
            /\ (arg.int = PyInt(1234) /\ use_and) =>
                  result.val = "one thousand, two hundred and thirty-four"
            /\ (arg.int = PyInt(1234) /\ ~use_and) =>
                  result.val = "one thousand, two hundred thirty-four"

W_C6 ==
    /\ Done("integer_string") /\ arg.int = PyInt(1234) /\ use_and
    /\ result.val = "one thousand, two hundred and thirty-four"

-----------------------------------------------------------------------------
(* C7: main without arguments *)

\* C7: when main runs without a number and without --max, whatever
\* random_number_string returns is converted without raising, and the line
\* printed is "<generated-string>: <phrase>".
CE_C7 ==
    (Done("main") /\ arg = None /\ ~argv_max) =>
        /\ result.err = ""
        /\ StartsWith(stdout, random \o ": ")
        /\ Len(stdout) > Len(random) + 3
        /\ EndsWith(stdout, "\n")

-----------------------------------------------------------------------------
(* C8: numbers below one thousand *)

TensWords == {NUMBER_NAMES[10 * t] : t \in 2..9}
UnitWords == {DIGIT_NAMES[d] : d \in 1..9}
ScaleWord(w) == w = "thousand" \/ EndsWith(w, "illion")

\* C8: for every n in 1..999 and either use_and, integer_string(n) has no
\* comma and no scale word; and when n % 100 is in 21..99 and not a multiple
\* of ten, it has exactly one hyphen, with a tens word (twenty..ninety) on its
\* left and a digit word (one..nine) on its right.
T_C8 ==
    (Done("integer_string") /\ ~arg.int.neg
        /\ arg.int.mag # << >> /\ Len(arg.int.mag) <= 3) =>
        LET n == ChunkAt(arg.int.mag, 0)
            words == Split(result.val, " ")
            hyphened == {i \in 1..Len(words) : Count(words[i], "-") > 0}
        IN  /\ result.err = ""
            /\ Count(result.val, ",") = 0
            /\ \A i \in 1..Len(words) : ~ScaleWord(words[i])
            /\ (n % 100 \in 21..99 /\ n % 10 # 0) =>
                  /\ Count(result.val, "-") = 1
                  /\ \A i \in hyphened :
                        LET sides == Split(words[i], "-")
                        IN  /\ Len(sides) = 2
                            /\ sides[1] \in TensWords
                            /\ sides[2] \in UnitWords

W_C8 ==
    /\ Done("integer_string") /\ arg.int = PyInt(234) /\ use_and
    /\ result.val = "two hundred and thirty-four"

-----------------------------------------------------------------------------
(* C9: the generator *)

RECURSIVE GroupsMag(_)
\* the magnitude whose base-1000 groups, least significant first, are given:
\* the sum of groups[i] * 1000^(i-1)
GroupsMag(groups) ==
    IF groups = << >> THEN << >>
    ELSE <<Head(groups) % 10, (Head(groups) \div 10) % 10,
           Head(groups) \div 100>> \o GroupsMag(Tail(groups))

GenDone ==
    Done("last_to_first_digit") /\ gen_base = 1000

\* C9: for every non-negative n, last_to_first_digit(n, base=1000) ends after
\* finitely many yields, and what it yielded is c_0..c_k with every c_i in
\* 0..999 and the sum of c_i * 1000^i equal to n; it is empty exactly when
\* n = 0, and otherwise its last element is not zero.
T_C9 ==
    /\ [](GenDone =>
            /\ \A i \in 1..Len(yielded) : yielded[i] \in 0..999
            /\ StripZeros(GroupsMag(yielded)) = arg.int.mag
            /\ yielded = << >> <=> arg.int.mag = << >>
            /\ yielded # << >> => yielded[Len(yielded)] # 0
            /\ Len(yielded) <= Len(arg.int.mag))
    /\ (pc = "gen" /\ gen_base = 1000) ~> (pc = "done")

W_C9 ==
    /\ GenDone /\ Len(yielded) = MaxGenIndex + 1
    /\ \E i \in 1..Len(yielded) : yielded[i] = 0

-----------------------------------------------------------------------------
(* C10: negative decimals *)

\* -<I>.<digits> with a value other than zero
IsNegativeDecimalText(s) ==
    /\ Len(s) >= 1 /\ Char(s, 1) = "-"
    /\ IsDecimalText(SubSeq(s, 2, Len(s)))
    /\ \E i \in 2..Len(s) : Char(s, i) \in {Digits[d] : d \in 2..10}

\* C10: for every negative decimal given to number_string, as a float or as
\* a string -<I>.<digits>, the phrase returned begins with "minus ", also
\* when the integer part is zero.
CE_C10 ==
    (Done("number_string") /\ arg.type \in {"str", "float"}
        /\ IsNegativeDecimalText(arg.text) /\ result.err = "") =>
        StartsWith(result.val, "minus ")

====
